---- MODULE Spec2Model ----
(***************************************************************************)
(* kube-client/src/error.rs: the client's Error enum and DiscoveryError.   *)
(*                                                                         *)
(* Text is a sequence of one-character strings, so that "contains",        *)
(* "starts with" and the quoting done by {:?} are computed, not assumed.   *)
(* A value is a record tagged by its Rust type in the field ty.            *)
(***************************************************************************)
EXTENDS Naturals, Sequences, FiniteSets, TLC

VARIABLES
    features,   \* the Cargo features the crate is built with
    cause,      \* the underlying value the current error was built from
    err,        \* the error value in flight (Error or DiscoveryError)
    msg,        \* what Display::fmt wrote for err, once called
    src         \* what std::error::Error::source returned for err, once called

vars == <<features, cause, err, msg, src>>

\* ---------------------------------------------------------------- bounds

\* longest payload text drawn over Chars
MaxLen == 1

\* ------------------------------------------------------------ text, values

NoValue == [ty |-> "None"]

None == [some |-> FALSE]
Some(v) == [some |-> TRUE, value |-> v]

Unset == [set |-> FALSE]

\* a letter, and the two characters that str's Debug escapes
Chars == {"a", "\"", "\\"}

RECURSIVE TextsOfLen(_)
TextsOfLen(n) ==
    IF n = 0 THEN {<< >>}
    ELSE {Append(t, c) : t \in TextsOfLen(n - 1), c \in Chars}

Texts ==
    UNION {TextsOfLen(n) : n \in 0..MaxLen} \cup {<<"p", "o", "d", "s">>, <<"s", "o", "c", "k", "s", "5">>}

String(s) == [ty |-> "String", s |-> s]

Strings == {String(s) : s \in Texts}

\* http::Uri, by components; an absent scheme, authority or query is empty
Uri(scheme, authority, path, query) ==
    [ty |-> "Uri", scheme |-> scheme, authority |-> authority,
     path |-> path, query |-> query]

\* "socks5://h:1080" as parsed: scheme, authority, no path, no query
SocksUri == Uri(<<"s", "o", "c", "k", "s", "5">>, <<"h", ":", "1", "0", "8", "0">>, << >>, << >>)

Uris ==
    { SocksUri,
      Uri(<<"h", "t", "t", "p">>, <<"p">>, <<"/", "a">>, <<"q">>),
      Uri(<< >>, << >>, <<"/", "a">>, << >>) }

\* the foreign error types wrapped by a #[source] field, one per variant
SourceType ==
    [ Api               |-> "kube_core::ErrorResponse",
      HyperError        |-> "hyper::Error",
      Service           |-> "tower::BoxError",
      FromUtf8          |-> "std::string::FromUtf8Error",
      ReadEvents        |-> "std::io::Error",
      HttpError         |-> "http::Error",
      SerdeError        |-> "serde_json::Error",
      BuildRequest      |-> "kube_core::request::Error",
      InferConfig       |-> "config::InferConfigError",
      OpensslTls        |-> "client::OpensslTlsError",
      RustlsTls         |-> "client::RustlsTlsError",
      UpgradeConnection |-> "client::UpgradeConnectionError",
      Auth              |-> "client::AuthError" ]

\* what a foreign error's Debug may write
DebugTexts == {<<"E">>, <<"E", " ", "{", " ", "a", " ", "}">>}

\* a foreign error value is known here only by its type and by what its own
\* Display and Debug write
ForeignValues(t) == [ty : {t}, display : Texts, debug : DebugTexts]

ForeignTypes == {SourceType[v] : v \in DOMAIN SourceType}

Underlying ==
    UNION {ForeignValues(t) : t \in ForeignTypes} \cup Strings \cup Uris

\* ------------------------------------------------------------- the enums

ErrorVariants ==
    { "Api", "HyperError", "Service", "ProxyProtocolUnsupported",
      "ProxyProtocolDisabled", "FromUtf8", "LinesCodecMaxLineLengthExceeded",
      "ReadEvents", "HttpError", "SerdeError", "BuildRequest", "InferConfig",
      "Discovery", "OpensslTls", "RustlsTls", "TlsRequired",
      "UpgradeConnection", "Auth", "RefResolve" }

DiscoveryErrorVariants ==
    { "InvalidGroupVersion", "MissingKind", "MissingApiGroup",
      "MissingResource", "EmptyApiGroup" }

Features == {"client", "openssl-tls", "rustls-tls", "ws", "unstable-client"}

\* the #[cfg(feature = ...)] attribute of each gated variant
CfgFeatureAuthOnWs ==
    [ HyperError        |-> "client",
      Service           |-> "client",
      OpensslTls        |-> "openssl-tls",
      RustlsTls         |-> "rustls-tls",
      UpgradeConnection |-> "ws",
      Auth              |-> "ws",
      RefResolve        |-> "unstable-client" ]

CfgFeatureTlsRequiredGated ==
    [ HyperError        |-> "client",
      Service           |-> "client",
      OpensslTls        |-> "openssl-tls",
      RustlsTls         |-> "rustls-tls",
      TlsRequired       |-> "rustls-tls",
      UpgradeConnection |-> "ws",
      Auth              |-> "client",
      RefResolve        |-> "unstable-client" ]

CfgFeature ==
    [ HyperError        |-> "client",
      Service           |-> "client",
      OpensslTls        |-> "openssl-tls",
      RustlsTls         |-> "rustls-tls",
      UpgradeConnection |-> "ws",
      Auth              |-> "client",
      RefResolve        |-> "unstable-client" ]

\* the variants of Error that a build with the features fs compiles
CompiledVariants(fs) ==
    {v \in ErrorVariants : v \in DOMAIN CfgFeature => CfgFeature[v] \in fs}

\* tuple variant Error::v(f0), unit variant Error::v, and the two struct ones
Tuple(v, f0) == [ty |-> "Error", variant |-> v, f0 |-> f0]
Unit(v) == [ty |-> "Error", variant |-> v]
Unsupported(u) ==
    [ty |-> "Error", variant |-> "ProxyProtocolUnsupported", proxy_url |-> u]
Disabled(u, f) ==
    [ty |-> "Error", variant |-> "ProxyProtocolDisabled", proxy_url |-> u,
     protocol_feature |-> f]

DiscoveryTuple(v, f0) == [ty |-> "DiscoveryError", variant |-> v, f0 |-> f0]

\* --------------------------------------------------------- format strings

Lit(t) == [piece |-> "lit", text |-> t]
\* {field} is Display, {field:?} is Debug
Arg(f, how) == [piece |-> "arg", field |-> f, how |-> how]

ApiFormat ==
    << Lit(<<"A", "p", "i", "E", "r", "r", "o", "r", ":", " ">>), Arg("f0", "Display"), Lit(<<" ", "(">>),
       Arg("f0", "Debug"), Lit(<<")">>) >>
HyperErrorFormat == << Lit(<<"H", "y", "p", "e", "r", "E", "r", "r", "o", "r", ":", " ">>), Arg("f0", "Display") >>
ServiceFormat == << Lit(<<"S", "e", "r", "v", "i", "c", "e", "E", "r", "r", "o", "r", ":", " ">>), Arg("f0", "Display") >>
ProxyProtocolUnsupportedFormat ==
    << Lit(<<"c", "o", "n", "f", "i", "g", "u", "r", "e", "d", " ", "p", "r", "o", "x", "y", " ">>), Arg("proxy_url", "Debug"),
       Lit(<<" ", "u", "s", "e", "s", " ", "a", "n", " ", "u", "n", "s", "u", "p", "p", "o", "r", "t", "e", "d", " ", "p", "r", "o", "t", "o", "c", "o", "l">>) >>
ProxyProtocolDisabledFormatNoFeature ==
    << Lit(<<"c", "o", "n", "f", "i", "g", "u", "r", "e", "d", " ", "p", "r", "o", "x", "y", " ">>), Arg("proxy_url", "Debug"),
       Lit(<<" ", "r", "e", "q", "u", "i", "r", "e", "s", " ", "t", "h", "e", " ", "d", "i", "s", "a", "b", "l", "e", "d", " ", "f", "e", "a", "t", "u", "r", "e", " ">>) >>
ProxyProtocolDisabledFormat ==
    << Lit(<<"c", "o", "n", "f", "i", "g", "u", "r", "e", "d", " ", "p", "r", "o", "x", "y", " ">>), Arg("proxy_url", "Debug"),
       Lit(<<" ", "r", "e", "q", "u", "i", "r", "e", "s", " ", "t", "h", "e", " ", "d", "i", "s", "a", "b", "l", "e", "d", " ", "f", "e", "a", "t", "u", "r", "e", " ">>),
       Arg("protocol_feature", "Debug") >>
FromUtf8Format == << Lit(<<"U", "T", "F", "-", "8", " ", "E", "r", "r", "o", "r", ":", " ">>), Arg("f0", "Display") >>
LinesCodecMaxLineLengthExceededFormatTypo ==
    << Lit(<<"E", "r", "r", "o", "r", " ", "f", "i", "n", "d", "i", "n", "g", " ", "n", "e", "w", "l", "i", "n", "e">>) >>
LinesCodecMaxLineLengthExceededFormat ==
    << Lit(<<"E", "r", "r", "o", "r", " ", "f", "i", "n", "d", "i", "n", "g", " ", "n", "e", "w", "l", "i", "n", "e", " ", "c", "h", "a", "r", "a", "c", "t", "e", "r">>) >>
ReadEventsFormat ==
    << Lit(<<"E", "r", "r", "o", "r", " ", "r", "e", "a", "d", "i", "n", "g", " ", "e", "v", "e", "n", "t", "s", " ", "s", "t", "r", "e", "a", "m", ":", " ">>), Arg("f0", "Display") >>
HttpErrorFormat == << Lit(<<"H", "t", "t", "p", "E", "r", "r", "o", "r", ":", " ">>), Arg("f0", "Display") >>
SerdeErrorFormatNoArg == << Lit(<<"E", "r", "r", "o", "r", " ", "d", "e", "s", "e", "r", "i", "a", "l", "i", "z", "i", "n", "g", " ", "r", "e", "s", "p", "o", "n", "s", "e">>) >>
SerdeErrorFormat ==
    << Lit(<<"E", "r", "r", "o", "r", " ", "d", "e", "s", "e", "r", "i", "a", "l", "i", "z", "i", "n", "g", " ", "r", "e", "s", "p", "o", "n", "s", "e", ":", " ">>), Arg("f0", "Display") >>
BuildRequestFormat ==
    << Lit(<<"F", "a", "i", "l", "e", "d", " ", "t", "o", " ", "b", "u", "i", "l", "d", " ", "r", "e", "q", "u", "e", "s", "t", ":", " ">>), Arg("f0", "Display") >>
InferConfigFormat ==
    << Lit(<<"F", "a", "i", "l", "e", "d", " ", "t", "o", " ", "i", "n", "f", "e", "r", " ", "c", "o", "n", "f", "i", "g", "u", "r", "a", "t", "i", "o", "n", ":", " ">>), Arg("f0", "Display") >>
DiscoveryFormatDebug ==
    << Lit(<<"E", "r", "r", "o", "r", " ", "f", "r", "o", "m", " ", "d", "i", "s", "c", "o", "v", "e", "r", "y", ":", " ">>), Arg("f0", "Debug") >>
DiscoveryFormat == << Lit(<<"E", "r", "r", "o", "r", " ", "f", "r", "o", "m", " ", "d", "i", "s", "c", "o", "v", "e", "r", "y", ":", " ">>), Arg("f0", "Display") >>
OpensslTlsFormat == << Lit(<<"o", "p", "e", "n", "s", "s", "l", " ", "t", "l", "s", " ", "e", "r", "r", "o", "r", ":", " ">>), Arg("f0", "Display") >>
RustlsTlsFormat == << Lit(<<"r", "u", "s", "t", "l", "s", " ", "t", "l", "s", " ", "e", "r", "r", "o", "r", ":", " ">>), Arg("f0", "Display") >>
TlsRequiredFormat == << Lit(<<"T", "L", "S", " ", "r", "e", "q", "u", "i", "r", "e", "d", " ", "b", "u", "t", " ", "n", "o", " ", "T", "L", "S", " ", "s", "t", "a", "c", "k", " ", "s", "e", "l", "e", "c", "t", "e", "d">>) >>
UpgradeConnectionFormat ==
    << Lit(<<"f", "a", "i", "l", "e", "d", " ", "t", "o", " ", "u", "p", "g", "r", "a", "d", "e", " ", "t", "o", " ", "a", " ", "W", "e", "b", "S", "o", "c", "k", "e", "t", " ", "c", "o", "n", "n", "e", "c", "t", "i", "o", "n", ":", " ">>),
       Arg("f0", "Display") >>
AuthFormat == << Lit(<<"a", "u", "t", "h", " ", "e", "r", "r", "o", "r", ":", " ">>), Arg("f0", "Display") >>
RefResolveFormat ==
    << Lit(<<"R", "e", "f", "e", "r", "e", "n", "c", "e", " ", "r", "e", "s", "o", "l", "v", "e", " ", "e", "r", "r", "o", "r", ":", " ">>), Arg("f0", "Display") >>

InvalidGroupVersionFormat ==
    << Lit(<<"I", "n", "v", "a", "l", "i", "d", " ", "G", "r", "o", "u", "p", "V", "e", "r", "s", "i", "o", "n", ":", " ">>), Arg("f0", "Display") >>
MissingKindFormatAsResource ==
    << Lit(<<"M", "i", "s", "s", "i", "n", "g", " ", "R", "e", "s", "o", "u", "r", "c", "e", ":", " ">>), Arg("f0", "Display") >>
MissingKindFormat == << Lit(<<"M", "i", "s", "s", "i", "n", "g", " ", "K", "i", "n", "d", ":", " ">>), Arg("f0", "Display") >>
MissingApiGroupFormat ==
    << Lit(<<"M", "i", "s", "s", "i", "n", "g", " ", "A", "p", "i", " ", "G", "r", "o", "u", "p", ":", " ">>), Arg("f0", "Display") >>
MissingResourceFormat ==
    << Lit(<<"M", "i", "s", "s", "i", "n", "g", " ", "R", "e", "s", "o", "u", "r", "c", "e", ":", " ">>), Arg("f0", "Display") >>
EmptyApiGroupFormat == << Lit(<<"E", "m", "p", "t", "y", " ", "A", "p", "i", " ", "G", "r", "o", "u", "p", ":", " ">>), Arg("f0", "Display") >>

\* the #[error("...")] attribute of a variant of Error
ErrorFormat(v) ==
    CASE v = "Api" -> ApiFormat
      [] v = "HyperError" -> HyperErrorFormat
      [] v = "Service" -> ServiceFormat
      [] v = "ProxyProtocolUnsupported" -> ProxyProtocolUnsupportedFormat
      [] v = "ProxyProtocolDisabled" -> ProxyProtocolDisabledFormat
      [] v = "FromUtf8" -> FromUtf8Format
      [] v = "LinesCodecMaxLineLengthExceeded" ->
            LinesCodecMaxLineLengthExceededFormat
      [] v = "ReadEvents" -> ReadEventsFormat
      [] v = "HttpError" -> HttpErrorFormat
      [] v = "SerdeError" -> SerdeErrorFormat
      [] v = "BuildRequest" -> BuildRequestFormat
      [] v = "InferConfig" -> InferConfigFormat
      [] v = "Discovery" -> DiscoveryFormat
      [] v = "OpensslTls" -> OpensslTlsFormat
      [] v = "RustlsTls" -> RustlsTlsFormat
      [] v = "TlsRequired" -> TlsRequiredFormat
      [] v = "UpgradeConnection" -> UpgradeConnectionFormat
      [] v = "Auth" -> AuthFormat
      [] v = "RefResolve" -> RefResolveFormat

\* the #[error("...")] attribute of a variant of DiscoveryError
DiscoveryErrorFormat(v) ==
    CASE v = "InvalidGroupVersion" -> InvalidGroupVersionFormat
      [] v = "MissingKind" -> MissingKindFormat
      [] v = "MissingApiGroup" -> MissingApiGroupFormat
      [] v = "MissingResource" -> MissingResourceFormat
      [] v = "EmptyApiGroup" -> EmptyApiGroupFormat

\* -------------------------------------------------------------- rendering

RECURSIVE Concat(_)
Concat(ts) == IF ts = << >> THEN << >> ELSE Head(ts) \o Concat(Tail(ts))

\* <str as Debug>: quoted, with the quote and the backslash escaped
EscapeDebug(c) ==
    IF c = "\"" THEN <<"\\", "\"">> ELSE IF c = "\\" THEN <<"\\", "\\">> ELSE <<c>>

StrDebug(s) ==
    <<"\"">> \o Concat([i \in 1..Len(s) |-> EscapeDebug(s[i])]) \o <<"\"">>

\* <Uri as Display>: scheme "://", authority, path, "?" query; the path of a
\* Uri that has a scheme and no path is "/"
UriPath(u) ==
    IF u.path # << >> \/ u.scheme # << >>
    THEN (IF u.path = << >> THEN <<"/">> ELSE u.path)
    ELSE << >>

UriDisplay(u) ==
    (IF u.scheme # << >> THEN u.scheme \o <<":", "/", "/">> ELSE << >>)
    \o u.authority
    \o UriPath(u)
    \o (IF u.query # << >> THEN <<"?">> \o u.query ELSE << >>)

\* the variant names, as #[derive(Debug)] writes them
DiscoveryErrorName(v) ==
    CASE v = "InvalidGroupVersion" -> <<"I", "n", "v", "a", "l", "i", "d", "G", "r", "o", "u", "p", "V", "e", "r", "s", "i", "o", "n">>
      [] v = "MissingKind" -> <<"M", "i", "s", "s", "i", "n", "g", "K", "i", "n", "d">>
      [] v = "MissingApiGroup" -> <<"M", "i", "s", "s", "i", "n", "g", "A", "p", "i", "G", "r", "o", "u", "p">>
      [] v = "MissingResource" -> <<"M", "i", "s", "s", "i", "n", "g", "R", "e", "s", "o", "u", "r", "c", "e">>
      [] v = "EmptyApiGroup" -> <<"E", "m", "p", "t", "y", "A", "p", "i", "G", "r", "o", "u", "p">>

\* the derived Debug of a DiscoveryError: Variant("name")
DiscoveryErrorDebug(e) ==
    DiscoveryErrorName(e.variant) \o <<"(">> \o StrDebug(e.f0.s) \o <<")">>

RECURSIVE Display(_)

\* one {..} of a format string, written by the argument's own Display or Debug.
\* Uri's Debug is its Display.
FmtArg(x, how) ==
    CASE x.ty = "String" -> IF how = "Debug" THEN StrDebug(x.s) ELSE x.s
      [] x.ty = "Uri" -> UriDisplay(x)
      [] x.ty = "DiscoveryError" ->
            IF how = "Debug" THEN DiscoveryErrorDebug(x) ELSE Display(x)
      [] OTHER -> IF how = "Debug" THEN x.debug ELSE x.display

Expand(e, format) ==
    Concat([i \in 1..Len(format) |->
              IF format[i].piece = "lit" THEN format[i].text
              ELSE FmtArg(e[format[i].field], format[i].how)])

\* the Display impl that #[derive(Error)] writes from the #[error] attributes
Display(e) ==
    IF e.ty = "Error" THEN Expand(e, ErrorFormat(e.variant))
    ELSE Expand(e, DiscoveryErrorFormat(e.variant))

\* ----------------------------------------------------------------- source

\* the variants of Error with a #[source] field
SourceVariants == DOMAIN SourceType \cup {"Discovery"}

ErrorSourceNoService(e) ==
    IF e.variant \in SourceVariants \ {"Service"} THEN Some(e.f0) ELSE None

\* Error::source as #[derive(Error)] writes it from the #[source] attributes
ErrorSource(e) ==
    IF e.variant \in SourceVariants THEN Some(e.f0) ELSE None

DiscoveryErrorSourceField(e) == Some(e.f0)

\* DiscoveryError::source: no variant has a #[source] field
DiscoveryErrorSource(e) == None

Source(e) ==
    IF e.ty = "Error" THEN ErrorSource(e) ELSE DiscoveryErrorSource(e)

\* the causes of e, outermost first, as far as the types of this file go
RECURSIVE Chain(_)
Chain(e) ==
    IF e.ty \in {"Error", "DiscoveryError"} /\ Source(e).some
    THEN <<e>> \o Chain(Source(e).value)
    ELSE <<e>>

\* ------------------------------------------------------------------ state

Init ==
    /\ features \in SUBSET Features
    /\ cause = NoValue
    /\ err = NoValue
    /\ msg = Unset
    /\ src = Unset

\* a failure is detected at its origin: a foreign error, a name or a proxy URL
Detect ==
    /\ cause = NoValue
    /\ err = NoValue
    /\ \E v \in Underlying : cause' = v
    /\ UNCHANGED <<features, err, msg, src>>

\* Error::v(cause), for a variant v wrapping a foreign error
Wrap(v) ==
    /\ err = NoValue
    /\ cause.ty = SourceType[v]
    /\ err' = Tuple(v, cause)
    /\ UNCHANGED <<features, cause, msg, src>>

Api ==
    /\ "Api" \in CompiledVariants(features)
    /\ Wrap("Api")

HyperError ==
    /\ "HyperError" \in CompiledVariants(features)
    /\ Wrap("HyperError")

Service ==
    /\ "Service" \in CompiledVariants(features)
    /\ Wrap("Service")

FromUtf8 ==
    /\ "FromUtf8" \in CompiledVariants(features)
    /\ Wrap("FromUtf8")

ReadEvents ==
    /\ "ReadEvents" \in CompiledVariants(features)
    /\ Wrap("ReadEvents")

HttpError ==
    /\ "HttpError" \in CompiledVariants(features)
    /\ Wrap("HttpError")

SerdeError ==
    /\ "SerdeError" \in CompiledVariants(features)
    /\ Wrap("SerdeError")

BuildRequest ==
    /\ "BuildRequest" \in CompiledVariants(features)
    /\ Wrap("BuildRequest")

InferConfig ==
    /\ "InferConfig" \in CompiledVariants(features)
    /\ Wrap("InferConfig")

OpensslTls ==
    /\ "OpensslTls" \in CompiledVariants(features)
    /\ Wrap("OpensslTls")

RustlsTls ==
    /\ "RustlsTls" \in CompiledVariants(features)
    /\ Wrap("RustlsTls")

UpgradeConnection ==
    /\ "UpgradeConnection" \in CompiledVariants(features)
    /\ Wrap("UpgradeConnection")

Auth ==
    /\ "Auth" \in CompiledVariants(features)
    /\ Wrap("Auth")

ProxyProtocolUnsupported ==
    /\ "ProxyProtocolUnsupported" \in CompiledVariants(features)
    /\ err = NoValue
    /\ cause.ty = "Uri"
    /\ err' = Unsupported(cause)
    /\ UNCHANGED <<features, cause, msg, src>>

ProxyProtocolDisabled ==
    /\ "ProxyProtocolDisabled" \in CompiledVariants(features)
    /\ err = NoValue
    /\ cause.ty = "Uri"
    /\ \E f \in Strings : err' = Disabled(cause, f)
    /\ UNCHANGED <<features, cause, msg, src>>

\* a unit variant is built from nothing
UnitVariant(v) ==
    /\ err = NoValue
    /\ cause = NoValue
    /\ err' = Unit(v)
    /\ UNCHANGED <<features, cause, msg, src>>

LinesCodecMaxLineLengthExceeded ==
    /\ "LinesCodecMaxLineLengthExceeded" \in CompiledVariants(features)
    /\ UnitVariant("LinesCodecMaxLineLengthExceeded")

TlsRequired ==
    /\ "TlsRequired" \in CompiledVariants(features)
    /\ UnitVariant("TlsRequired")

RefResolve ==
    /\ "RefResolve" \in CompiledVariants(features)
    /\ err = NoValue
    /\ cause.ty = "String"
    /\ err' = Tuple("RefResolve", cause)
    /\ UNCHANGED <<features, cause, msg, src>>

\* DiscoveryError::v(cause), from the name of the offending item
DiscoveryVariant(v) ==
    /\ err = NoValue
    /\ err' = DiscoveryTuple(v, cause)
    /\ UNCHANGED <<features, cause, msg, src>>

InvalidGroupVersion ==
    /\ cause.ty = "String"
    /\ DiscoveryVariant("InvalidGroupVersion")

MissingKind ==
    /\ cause.ty = "String"
    /\ DiscoveryVariant("MissingKind")

MissingApiGroup ==
    /\ cause.ty = "String"
    /\ DiscoveryVariant("MissingApiGroup")

MissingResource ==
    /\ cause.ty = "String"
    /\ DiscoveryVariant("MissingResource")

EmptyApiGroup ==
    /\ cause.ty = "String"
    /\ DiscoveryVariant("EmptyApiGroup")

\* Error::Discovery(err): the DiscoveryError in flight becomes the cause
Discovery ==
    /\ "Discovery" \in CompiledVariants(features)
    /\ err.ty = "DiscoveryError"
    /\ cause' = err
    /\ err' = Tuple("Discovery", err)
    /\ msg' = Unset
    /\ src' = Unset
    /\ UNCHANGED features

\* the caller renders the error
Fmt ==
    /\ err # NoValue
    /\ msg = Unset
    /\ msg' = [set |-> TRUE, text |-> Display(err)]
    /\ UNCHANGED <<features, cause, err, src>>

\* the caller asks for the cause
GetSource ==
    /\ err # NoValue
    /\ src = Unset
    /\ src' = [set |-> TRUE, result |-> Source(err)]
    /\ UNCHANGED <<features, cause, err, msg>>

\* the error, or a failure that no compiled variant reports, is dropped
Drop ==
    /\ cause # NoValue \/ err # NoValue
    /\ cause' = NoValue
    /\ err' = NoValue
    /\ msg' = Unset
    /\ src' = Unset
    /\ UNCHANGED features

Next ==
    \/ Detect
    \/ Api \/ HyperError \/ Service \/ FromUtf8 \/ ReadEvents \/ HttpError
    \/ SerdeError \/ BuildRequest \/ InferConfig \/ OpensslTls \/ RustlsTls
    \/ UpgradeConnection \/ Auth
    \/ ProxyProtocolUnsupported \/ ProxyProtocolDisabled
    \/ LinesCodecMaxLineLengthExceeded \/ TlsRequired
    \/ RefResolve
    \/ InvalidGroupVersion \/ MissingKind \/ MissingApiGroup
    \/ MissingResource \/ EmptyApiGroup
    \/ Discovery
    \/ Fmt \/ GetSource \/ Drop

Spec == Init /\ [][Next]_vars

\* ============================================================ properties

Contains(hay, needle) ==
    \E i \in 0..Len(hay) :
        /\ i + Len(needle) <= Len(hay)
        /\ SubSeq(hay, i + 1, i + Len(needle)) = needle

IsPrefix(p, t) == Len(p) <= Len(t) /\ SubSeq(t, 1, Len(p)) = p

IsError == err.ty = "Error"
IsDiscoveryError == err.ty = "DiscoveryError"

\* ---------------------------------------------------------------- C1

C1_Variants ==
    { "Api", "HyperError", "Service", "FromUtf8", "ReadEvents", "HttpError",
      "SerdeError", "BuildRequest", "InferConfig", "Discovery", "OpensslTls",
      "RustlsTls", "UpgradeConnection", "Auth" }

\* C1: for each of the fourteen variants that wrap a source, the source
\* retrieved from the variant built from a value v is exactly v.
C1_SourceRoundTrip ==
    (IsError /\ err.variant \in C1_Variants /\ src.set)
        => src.result = Some(cause)

C1_Witness ==
    /\ IsError /\ err.variant = "Service" /\ src.set
    /\ cause.ty = "tower::BoxError" /\ cause.display = <<"a">>

\* ---------------------------------------------------------------- C2

C2_Identifier(ty, v) ==
    IF ty = "Error" THEN
        CASE v = "Api" -> <<"A", "p", "i", "E", "r", "r", "o", "r">>
          [] v = "HyperError" -> <<"H", "y", "p", "e", "r", "E", "r", "r", "o", "r">>
          [] v = "Service" -> <<"S", "e", "r", "v", "i", "c", "e", "E", "r", "r", "o", "r">>
          [] v = "ProxyProtocolUnsupported" -> <<"u", "n", "s", "u", "p", "p", "o", "r", "t", "e", "d", " ", "p", "r", "o", "t", "o", "c", "o", "l">>
          [] v = "ProxyProtocolDisabled" -> <<"d", "i", "s", "a", "b", "l", "e", "d", " ", "f", "e", "a", "t", "u", "r", "e">>
          [] v = "FromUtf8" -> <<"U", "T", "F", "-", "8">>
          [] v = "LinesCodecMaxLineLengthExceeded" -> <<"n", "e", "w", "l", "i", "n", "e">>
          [] v = "ReadEvents" -> <<"e", "v", "e", "n", "t", "s", " ", "s", "t", "r", "e", "a", "m">>
          [] v = "HttpError" -> <<"H", "t", "t", "p", "E", "r", "r", "o", "r">>
          [] v = "SerdeError" -> <<"d", "e", "s", "e", "r", "i", "a", "l", "i", "z", "i", "n", "g">>
          [] v = "BuildRequest" -> <<"b", "u", "i", "l", "d", " ", "r", "e", "q", "u", "e", "s", "t">>
          [] v = "InferConfig" -> <<"i", "n", "f", "e", "r", " ", "c", "o", "n", "f", "i", "g", "u", "r", "a", "t", "i", "o", "n">>
          [] v = "Discovery" -> <<"d", "i", "s", "c", "o", "v", "e", "r", "y">>
          [] v = "OpensslTls" -> <<"o", "p", "e", "n", "s", "s", "l">>
          [] v = "RustlsTls" -> <<"r", "u", "s", "t", "l", "s">>
          [] v = "TlsRequired" -> <<"T", "L", "S", " ", "r", "e", "q", "u", "i", "r", "e", "d">>
          [] v = "UpgradeConnection" -> <<"W", "e", "b", "S", "o", "c", "k", "e", "t">>
          [] v = "Auth" -> <<"a", "u", "t", "h", " ", "e", "r", "r", "o", "r">>
          [] v = "RefResolve" -> <<"R", "e", "f", "e", "r", "e", "n", "c", "e", " ", "r", "e", "s", "o", "l", "v", "e">>
    ELSE
        CASE v = "InvalidGroupVersion" -> <<"I", "n", "v", "a", "l", "i", "d", " ", "G", "r", "o", "u", "p", "V", "e", "r", "s", "i", "o", "n">>
          [] v = "MissingKind" -> <<"M", "i", "s", "s", "i", "n", "g", " ", "K", "i", "n", "d">>
          [] v = "MissingApiGroup" -> <<"M", "i", "s", "s", "i", "n", "g", " ", "A", "p", "i", " ", "G", "r", "o", "u", "p">>
          [] v = "MissingResource" -> <<"M", "i", "s", "s", "i", "n", "g", " ", "R", "e", "s", "o", "u", "r", "c", "e">>
          [] v = "EmptyApiGroup" -> <<"E", "m", "p", "t", "y", " ", "A", "p", "i", " ", "G", "r", "o", "u", "p">>

\* the fixed text of a format string
C2_FixedText(format) ==
    Concat([i \in 1..Len(format) |->
              IF format[i].piece = "lit" THEN format[i].text ELSE << >>])

\* an identifier occurs in the fixed text of its own variant only
C2_Distinguishing ==
    /\ \A v, w \in ErrorVariants :
          Contains(C2_FixedText(ErrorFormat(w)), C2_Identifier("Error", v))
              <=> v = w
    /\ \A v, w \in DiscoveryErrorVariants :
          Contains(C2_FixedText(DiscoveryErrorFormat(w)),
                   C2_Identifier("DiscoveryError", v)) <=> v = w

\* the payload of err as its own type renders it
C2_PayloadShown ==
    /\ (IsError /\ err.variant \in DOMAIN SourceType)
          => Contains(msg.text, err.f0.display)
    /\ (IsError /\ err.variant = "Api")
          => Contains(msg.text, err.f0.debug)
    /\ (IsError /\ err.variant = "Discovery")
          => Contains(msg.text, Display(err.f0))
    /\ ((IsError /\ err.variant = "RefResolve") \/ IsDiscoveryError)
          => Contains(msg.text, err.f0.s)
    /\ (IsError /\ err.variant \in
            {"ProxyProtocolUnsupported", "ProxyProtocolDisabled"})
          => Contains(msg.text, UriDisplay(err.proxy_url))
    /\ (IsError /\ err.variant = "ProxyProtocolDisabled")
          => Contains(msg.text, StrDebug(err.protocol_feature.s))

\* C2: the message of any variant of Error or DiscoveryError contains the
\* variant's identifier, which no other variant's fixed text contains, and
\* the payload or source as the payload's own Display (or Debug, where the
\* format string asks for it) writes it.
C2_MessageNamesVariantAndPayload ==
    /\ C2_Distinguishing
    /\ msg.set =>
          /\ Contains(msg.text, C2_Identifier(err.ty, err.variant))
          /\ C2_PayloadShown

C2_Witness ==
    /\ IsError /\ err.variant = "SerdeError" /\ msg.set
    /\ err.f0.display = <<"\"">>

\* ---------------------------------------------------------------- C3

C3_Gate ==
    [ HyperError        |-> "client",
      Service           |-> "client",
      Auth              |-> "client",
      OpensslTls        |-> "openssl-tls",
      RustlsTls         |-> "rustls-tls",
      UpgradeConnection |-> "ws",
      RefResolve        |-> "unstable-client" ]

\* C3: a gated variant is in the compiled Error type iff its feature is
\* enabled, and no error of a gated variant exists in a build without it.
C3_GatedIffFeature ==
    /\ \A v \in DOMAIN C3_Gate :
          v \in CompiledVariants(features) <=> C3_Gate[v] \in features
    /\ (IsError /\ err.variant \in DOMAIN C3_Gate)
          => C3_Gate[err.variant] \in features

C3_Witness ==
    /\ IsError /\ err.variant = "Auth"
    /\ features = {"client"}

\* ---------------------------------------------------------------- C4

C4_Core ==
    { "Api", "FromUtf8", "ReadEvents", "HttpError", "SerdeError",
      "BuildRequest", "InferConfig", "Discovery", "TlsRequired",
      "ProxyProtocolUnsupported", "ProxyProtocolDisabled",
      "LinesCodecMaxLineLengthExceeded" }

\* C4: whatever the features, the twelve core variants are compiled and can
\* be built whenever a value of their payload type is at hand.
C4_CoreAlwaysPresent ==
    /\ C4_Core \subseteq CompiledVariants(features)
    /\ (err = NoValue /\ cause = NoValue)
          => ENABLED TlsRequired /\ ENABLED LinesCodecMaxLineLengthExceeded
    /\ (err = NoValue /\ cause.ty = "Uri")
          => ENABLED ProxyProtocolDisabled /\ ENABLED ProxyProtocolUnsupported
    /\ (err = NoValue /\ cause.ty = SourceType.Api) => ENABLED Api
    /\ (err = NoValue /\ cause.ty = SourceType.FromUtf8) => ENABLED FromUtf8
    /\ (err = NoValue /\ cause.ty = SourceType.ReadEvents) => ENABLED ReadEvents
    /\ (err = NoValue /\ cause.ty = SourceType.HttpError) => ENABLED HttpError
    /\ (err = NoValue /\ cause.ty = SourceType.SerdeError) => ENABLED SerdeError
    /\ (err = NoValue /\ cause.ty = SourceType.BuildRequest) => ENABLED BuildRequest
    /\ (err = NoValue /\ cause.ty = SourceType.InferConfig) => ENABLED InferConfig
    /\ IsDiscoveryError => ENABLED Discovery

C4_Witness ==
    /\ features = {}
    /\ err = Unit("TlsRequired")

\* ---------------------------------------------------------------- C5

\* C5: the message of ProxyProtocolDisabled contains the URL as Uri writes it
\* and the feature as str's Debug writes it; for socks5://h:1080 and socks5 it
\* contains both texts literally.
C5_ProxyDisabledShowsBoth ==
    (IsError /\ err.variant = "ProxyProtocolDisabled" /\ msg.set) =>
        /\ Contains(msg.text, UriDisplay(cause))
        /\ Contains(msg.text, StrDebug(err.protocol_feature.s))
        /\ (cause = SocksUri /\ err.protocol_feature.s = <<"s", "o", "c", "k", "s", "5">>) =>
              /\ Contains(msg.text, <<"s", "o", "c", "k", "s", "5", ":", "/", "/", "h", ":", "1", "0", "8", "0">>)
              /\ Contains(msg.text, <<"f", "e", "a", "t", "u", "r", "e", " ", "\"", "s", "o", "c", "k", "s", "5", "\"">>)

C5_Witness ==
    /\ IsError /\ err.variant = "ProxyProtocolDisabled" /\ msg.set
    /\ err.proxy_url = SocksUri
    /\ err.protocol_feature = String(<<"s", "o", "c", "k", "s", "5">>)

\* ---------------------------------------------------------------- C6

\* C6: the message of Error::Discovery(d) is the discovery marker followed by
\* the whole message of d, which contains d's string; for
\* MissingResource("pods") it is the marker, "Missing Resource: " and "pods".
C6_DiscoveryShowsInner ==
    (IsError /\ err.variant = "Discovery" /\ msg.set) =>
        /\ msg.text = <<"E", "r", "r", "o", "r", " ", "f", "r", "o", "m", " ", "d", "i", "s", "c", "o", "v", "e", "r", "y", ":", " ">> \o Display(cause)
        /\ Contains(Display(cause), cause.f0.s)
        /\ cause = DiscoveryTuple("MissingResource", String(<<"p", "o", "d", "s">>)) =>
              msg.text = <<"E", "r", "r", "o", "r", " ", "f", "r", "o", "m", " ", "d", "i", "s", "c", "o", "v", "e", "r", "y", ":", " ", "M", "i", "s", "s", "i", "n", "g", " ", "R", "e", "s", "o", "u", "r", "c", "e", ":", " ", "p", "o", "d", "s">>

C6_Witness ==
    /\ IsError /\ err.variant = "Discovery" /\ msg.set
    /\ err.f0 = DiscoveryTuple("MissingResource", String(<<"p", "o", "d", "s">>))

\* ---------------------------------------------------------------- C7

\* the DiscoveryError in the state, alone or wrapped
C7_Inner ==
    IF IsDiscoveryError THEN {err}
    ELSE IF IsError /\ err.variant = "Discovery" THEN {err.f0}
    ELSE {}

\* C7: DiscoveryError has the five variants named, each with one string and no
\* source; the causes of Error::Discovery(d) are the error and d, and no
\* other variant of Error holds a value of a type of this file.
C7_DiscoveryIsLeaf ==
    /\ DiscoveryErrorVariants =
          { "InvalidGroupVersion", "MissingKind", "MissingApiGroup",
            "MissingResource", "EmptyApiGroup" }
    /\ Cardinality(DiscoveryErrorVariants) = 5
    /\ \A d \in C7_Inner :
          /\ DOMAIN d = {"ty", "variant", "f0"}
          /\ d.variant \in DiscoveryErrorVariants
          /\ d.f0.ty = "String"
          /\ Source(d) = None
          /\ Chain(d) = <<d>>
    /\ (IsDiscoveryError /\ src.set) => src.result = None
    /\ (IsError /\ err.variant = "Discovery") => Chain(err) = <<err, err.f0>>
    /\ (IsError /\ err.variant # "Discovery") =>
          \A f \in DOMAIN err \ {"ty", "variant"} :
              err[f].ty \notin {"Error", "DiscoveryError"}

C7_Witness ==
    /\ IsError /\ err.variant = "Discovery" /\ src.set
    /\ src.result = Some(DiscoveryTuple("MissingKind", String(<<"a">>)))

\* ---------------------------------------------------------------- C9

\* C9: LinesCodecMaxLineLengthExceeded has no field and no source, and its
\* message is always "Error finding newline character".
C9_LinesCodecFixedMessage ==
    (IsError /\ err.variant = "LinesCodecMaxLineLengthExceeded") =>
        /\ DOMAIN err = {"ty", "variant"}
        /\ cause = NoValue
        /\ src.set => src.result = None
        /\ msg.set => msg.text = <<"E", "r", "r", "o", "r", " ", "f", "i", "n", "d", "i", "n", "g", " ", "n", "e", "w", "l", "i", "n", "e", " ", "c", "h", "a", "r", "a", "c", "t", "e", "r">>

C9_Witness ==
    /\ IsError /\ err.variant = "LinesCodecMaxLineLengthExceeded"
    /\ msg.set /\ src.set
    /\ features = {"ws"}

\* ---------------------------------------------------------------- C10

\* every Error and every DiscoveryError over the payloads of the model
C10_AllDiscoveryErrors ==
    {DiscoveryTuple(v, s) : v \in DiscoveryErrorVariants, s \in Strings}

C10_AllErrors ==
    UNION {{Tuple(v, x) : x \in ForeignValues(SourceType[v])} :
              v \in DOMAIN SourceType}
    \cup {Tuple("Discovery", d) : d \in C10_AllDiscoveryErrors}
    \cup {Tuple("RefResolve", s) : s \in Strings}
    \cup {Unsupported(u) : u \in Uris}
    \cup {Disabled(u, f) : u \in Uris, f \in Strings}
    \cup {Unit("LinesCodecMaxLineLengthExceeded"), Unit("TlsRequired")}

C10_Messages ==
    {[ty |-> e.ty, variant |-> e.variant, text |-> Display(e)] :
        e \in C10_AllErrors \cup C10_AllDiscoveryErrors}

C10_Lead(ty, v) ==
    IF ty = "Error" THEN ErrorFormat(v)[1].text
    ELSE DiscoveryErrorFormat(v)[1].text

C10_Proxies == {"ProxyProtocolUnsupported", "ProxyProtocolDisabled"}

\* no variant's leading text begins another's, the two proxy variants apart,
\* which differ in their last character
C10_LeadsDiffer ==
    /\ \A v, w \in ErrorVariants :
          (v # w /\ {v, w} # C10_Proxies)
              => ~IsPrefix(C10_Lead("Error", v), C10_Lead("Error", w))
    /\ \A v, w \in DiscoveryErrorVariants :
          v # w => ~IsPrefix(C10_Lead("DiscoveryError", v),
                             C10_Lead("DiscoveryError", w))
    /\ \A m \in C10_Messages :
          (m.ty = "Error" /\ m.variant \in C10_Proxies) =>
              (m.text[Len(m.text)] = "\"" <=>
                  m.variant = "ProxyProtocolDisabled")

\* C10: two errors of different variants of the same enum never have the
\* same message, whatever their payloads.
C10_MessageIdentifiesVariant ==
    /\ C10_LeadsDiffer
    /\ msg.set =>
          \A m \in C10_Messages :
              (m.ty = err.ty /\ m.variant # err.variant)
                  => m.text # msg.text

C10_Witness ==
    /\ IsError /\ err.variant = "ReadEvents" /\ msg.set
    /\ IsPrefix(<<"E", "r", "r", "o", "r", " ">>, msg.text)
    /\ \E m \in C10_Messages :
          m.variant = "SerdeError" /\ IsPrefix(<<"E", "r", "r", "o", "r", " ">>, m.text)

====
